---- MODULE Spec2Model ----
(***************************************************************************)
(* Model of src/hello_world/app.py: the Lambda webhook handler of a chat   *)
(* bot.  Every inbound request is an independent invocation of            *)
(* lambda_handler; the only state the invocations share is the DynamoDB   *)
(* table of token balances.  A request is a process whose steps are the   *)
(* pieces of code between two calls to an external collaborator (table,   *)
(* platform API, image host, classification API); requests interleave at  *)
(* those calls.                                                            *)
(***************************************************************************)
EXTENDS Integers, Sequences, FiniteSets, TLC

\* ------------------------------------------------------------------ bounds

\* A user's record holds 0, 5, ..., 5 * MaxInitialFives tokens when the first
\* request arrives (or does not exist yet).
MaxInitialFives == 3

\* Two invocations of lambda_handler in flight together: what it takes for
\* one invocation's table read and write to interleave with another's.
Requests == {1, 2}

\* ------------------------------------------------------------ input domains

Users == {"u1"}

NoUser == "none"

NoName == "none"

NoItem == "none"

InitialTokens == {5 * k : k \in 0..MaxInitialFives}

\* shop_items of buy_command (the same literal dict as in shop_command).
ShopItems == {"item1", "item2", "item3"}

Price(item) ==
    CASE item = "item1" -> 10
      [] item = "item2" -> 20
      [] item = "item3" -> 30

\* token_mapping of extract_tokens_from_description.
WasteTypes ==
    {"Plastic", "Paper", "Glass", "Metal", "Organic", "Textile", "Electronic",
     "Wood", "Rubber", "Ceramic", "Composite", "Hazardous", "Medical",
     "Miscellaneous"}

TokenMapping(waste_type) ==
    CASE waste_type \in {"Plastic", "Paper", "Organic", "Miscellaneous"} -> 1
      [] waste_type \in {"Glass", "Textile", "Wood", "Ceramic", "Composite"} -> 2
      [] waste_type \in {"Metal", "Rubber"} -> 3
      [] waste_type \in {"Electronic", "Medical"} -> 4
      [] waste_type = "Hazardous" -> 5

\* A description is the free text the classification API returns; the code
\* reads it only through `waste_type in description`, so it is modelled by
\* the set of waste types that occur in it as substrings.
Descriptions == {{}, {"Plastic"}, {"Glass", "Metal"}}

RECURSIVE SumTokens(_)
SumTokens(S) ==
    IF S = {} THEN 0
    ELSE LET w == CHOOSE x \in S : TRUE
         IN  TokenMapping(w) + SumTokens(S \ {w})

extract_tokens_from_description(description) ==
    SumTokens({w \in WasteTypes : w \in description})

\* The parsed interaction envelope, as far as the code reads it: type,
\* data.name, member.user.id, data.options (hasOptions: the key is present;
\* options: the values of the list's elements).
Json(type, name, user, hasOptions, options) ==
    [type |-> type, name |-> name, user |-> user,
     hasOptions |-> hasOptions, options |-> options]

NoJson == Json(0, NoName, NoUser, FALSE, <<>>)

UserField == Users \cup {NoUser}

JsonBodies ==
    \* liveness checks, bare and carrying a command
    {Json(1, NoName, NoUser, FALSE, <<>>), Json(1, "buy", "u1", TRUE, <<"item1">>)}
    \* names the router does not know (earn and spend are registered)
    \cup {Json(2, n, "u1", FALSE, <<>>) : n \in {"earn", "spend", "foo", NoName}}
    \cup {Json(2, "shop", "u1", FALSE, <<>>)}
    \cup {Json(2, "balance", u, FALSE, <<>>) : u \in UserField}
    \cup {Json(2, "buy", u, FALSE, <<>>) : u \in UserField}
    \cup {Json(2, "buy", u, TRUE, o) : u \in UserField,
              o \in {<<>>, <<"item1">>, <<"item2">>, <<"item3">>, <<"item9">>}}
    \cup {Json(2, "submit_image", u, FALSE, <<>>) : u \in UserField}
    \cup {Json(2, "submit_image", u, TRUE, o) : u \in UserField,
              o \in {<<>>, <<"http://img">>}}

\* Header pairs <<sig, ts>> of a request that is not a verified one.
UnverifiedHeaders ==
    ({"absent", "nonhex", "wrong", "valid"} \X BOOLEAN) \ {<<"valid", TRUE>>}

\* JSON bodies of requests that fail before the body is looked into: a
\* liveness check, a purchase and an image submission.
UnreadBodies ==
    {Json(1, "buy", "u1", TRUE, <<"item1">>), Json(2, "buy", "u1", TRUE, <<"item1">>),
     Json(2, "submit_image", "u1", TRUE, <<"http://img">>)}

\* The event handed to lambda_handler.
\*   sig:  the x-signature-ed25519 header: "absent" (missing or empty),
\*         "nonhex" (bytes.fromhex raises ValueError), "wrong" (verify raises
\*         BadSignatureError), "valid" (verifies over timestamp || body);
\*   ts:   the x-signature-timestamp header is present and not empty;
\*   body: "null" (the body key holds None, as for a request without a
\*         body), "badb64" (isBase64Encoded and the body does not decode),
\*         "notjson" (a string json.loads rejects), "json";
\*   json: what json.loads returns for a "json" body.
\* Only the platform holds the signing key, so a "valid" signature comes with
\* a body the platform produced: a JSON object.
Events ==
    {[sig |-> "valid", ts |-> TRUE, body |-> "json", json |-> j] : j \in JsonBodies}
    \cup
    {[sig |-> h[1], ts |-> h[2], body |-> "json", json |-> j] :
        h \in UnverifiedHeaders, j \in UnreadBodies}
    \cup
    {[sig |-> h[1], ts |-> h[2], body |-> b, json |-> NoJson] :
        h \in UnverifiedHeaders \ {<<"valid", FALSE>>},
        b \in {"null", "badb64", "notjson"}}

NoEvent == [sig |-> "absent", ts |-> FALSE, body |-> "null", json |-> NoJson]

\* ------------------------------------------------------------------- state

VARIABLES
    users_table,  \* the DynamoDB table: user -> [present, tokens]
    pc,           \* request -> where the invocation stands
    event,        \* request -> the event it was invoked with
    local,        \* request -> the handler's local variables
    sent,         \* request -> the payload posted to the platform callback
    response,     \* request -> what lambda_handler returned
    calls         \* request -> the calls the invocation made, in order

vars == <<users_table, pc, event, local, sent, response, calls>>

\* ----------------------------------------------------------------- helpers

Body(error, type, text) == [error |-> error, type |-> type, text |-> text]

NoResponse == [statusCode |-> 0, body |-> Body("", 0, "")]

error_response(status_code, message) ==
    [statusCode |-> status_code, body |-> Body(message, 0, "")]

successful_response(type) ==
    [statusCode |-> 200, body |-> Body("", type, "")]

\* The content of a type-4 message: kind names the f-string, the other
\* fields are the values it interpolates.
Content(kind, user, item, n, m) ==
    [kind |-> kind, user |-> user, item |-> item, n |-> n, m |-> m]

Payload(type, content) == [type |-> type, content |-> content]

NoPayload == Payload(0, Content("none", NoUser, NoItem, 0, 0))

\* Status codes the platform answers a delivered callback with (any status
\* raise_for_status accepts).
CallbackStatuses == {200, 204}

\* One entry of calls: the operation, and for a table operation the user,
\* the amount (update) or the value returned (get), and the stored tokens
\* before and after it.
Call(op, user, amount, before, after, ok) ==
    [op |-> op, user |-> user, amount |-> amount, before |-> before,
     after |-> after, ok |-> ok]

Did(op) == Call(op, NoUser, 0, 0, 0, TRUE)

Failed(op) == Call(op, NoUser, 0, 0, 0, FALSE)

Ops(r) == {calls[r][i].op : i \in 1..Len(calls[r])}

NoContent == Content("none", NoUser, NoItem, 0, 0)

\* The handler's local variables: user_id, item, price, current_tokens,
\* token_amount and message (the content of the reply being built).
Locals(user, item, price) ==
    [user |-> user, item |-> item, price |-> price, current_tokens |-> 0,
     token_amount |-> 0, message |-> NoContent]

NoLocals == Locals(NoUser, NoItem, 0)

Tokens(u) == users_table[u].tokens

\* ---------------------------------------------------------------- the table

\* get_user_tokens: the stored tokens, 0 when there is no item, and 0 when
\* get_item raises (ok = FALSE).
get_user_tokens(user_id, ok) ==
    IF ok /\ users_table[user_id].present THEN users_table[user_id].tokens ELSE 0

\* update_user_tokens: SET tokens = if_not_exists(tokens, 0) + amount, one
\* atomic update; nothing is written when update_item raises (ok = FALSE).
update_user_tokens(user_id, amount, ok) ==
    IF ok
    THEN [users_table EXCEPT
            ![user_id] = [present |-> TRUE,
                          tokens |-> (IF @.present THEN @.tokens ELSE 0) + amount]]
    ELSE users_table

\* --------------------------------------------- lambda_handler, handle_command

\* What the code from the start of lambda_handler to its first call of a
\* collaborator (or to its return) comes to: where the invocation stands
\* next, the response if it returned, the calls made and the locals set.
Outcome(at, resp, made, locals) ==
    [pc |-> at, response |-> resp, calls |-> made, local |-> locals]

Return(resp, made) == Outcome("done", resp, made, NoLocals)

Goto(at, made, locals) == Outcome(at, NoResponse, made, locals)

balance_command(j) ==
    IF j.user = NoUser
    THEN Return(error_response(400, "Invalid user information"),
                <<Did("balance_command")>>)
    ELSE Goto("balance_get", <<Did("balance_command")>>, Locals(j.user, NoItem, 0))

shop_command(j) ==
    Goto("reply", <<Did("shop_command")>>,
         [NoLocals EXCEPT !.message = Content("shop", NoUser, NoItem, 0, 0)])

\* A variant of buy_command that decrements without reading the balance.
buy_command_no_read(j) ==
    IF j.user = NoUser \/ ~j.hasOptions
    THEN Return(error_response(400, "Invalid item"), <<Did("buy_command")>>)
    ELSE IF j.options = <<>>
    THEN Return(error_response(500, "Internal server error"),
                <<Did("buy_command")>>)
    ELSE LET item == j.options[1] IN
         IF item \in ShopItems
         THEN Goto("buy_update", <<Did("buy_command")>>,
                   Locals(j.user, item, Price(item)))
         ELSE Goto("reply", <<Did("buy_command")>>,
                   [Locals(j.user, item, 0) EXCEPT
                       !.message = Content("not_exist", j.user, item, 0, 0)])

buy_command(j) ==
    IF j.user = NoUser \/ ~j.hasOptions
    THEN \* KeyError, caught in buy_command
         Return(error_response(400, "Invalid item"), <<Did("buy_command")>>)
    ELSE IF j.options = <<>>
    THEN \* IndexError, caught by handle_command's except Exception
         Return(error_response(500, "Internal server error"),
                <<Did("buy_command")>>)
    ELSE LET item == j.options[1] IN
         IF item \in ShopItems
         THEN Goto("buy_get", <<Did("buy_command")>>,
                   Locals(j.user, item, Price(item)))
         ELSE Goto("reply", <<Did("buy_command")>>,
                   [Locals(j.user, item, 0) EXCEPT
                       !.message = Content("not_exist", j.user, item, 0, 0)])

submit_image_command(j) ==
    IF j.user = NoUser \/ ~j.hasOptions
    THEN \* KeyError, caught in submit_image_command
         Return(error_response(500, "Failed to process the image"),
                <<Did("submit_image_command")>>)
    ELSE IF j.options = <<>>
    THEN \* IndexError, caught by submit_image_command's except Exception
         Return(error_response(500, "Failed to analyze the image"),
                <<Did("submit_image_command")>>)
    ELSE Goto("download", <<Did("submit_image_command")>>,
              Locals(j.user, j.options[1], 0))

\* A variant of handle_command that accepts a name it has no handler for.
handle_command_ignores_unknown(j) ==
    CASE j.name = "balance" -> balance_command(j)
      [] j.name = "shop" -> shop_command(j)
      [] j.name = "buy" -> buy_command(j)
      [] j.name = "submit_image" -> submit_image_command(j)
      [] OTHER -> Return(successful_response(4), <<>>)

handle_command(j) ==
    CASE j.name = "balance" -> balance_command(j)
      [] j.name = "shop" -> shop_command(j)
      [] j.name = "buy" -> buy_command(j)
      [] j.name = "submit_image" -> submit_image_command(j)
      [] OTHER -> Return(error_response(400, "Unknown command"), <<>>)

Prepend(made, o) == [o EXCEPT !.calls = made \o @]

\* A variant of handle_verified that routes a liveness check like a command.
handle_verified_no_ping(j) == handle_command(j)

\* lambda_handler once the signature has verified: a PING (type 1) is
\* answered with {"type": 1}; anything else goes to handle_command.
handle_verified(j) ==
    IF j.type = 1
    THEN Return(successful_response(1), <<>>)
    ELSE handle_command(j)

lambda_handler(e) ==
    IF e.sig = "absent" \/ ~e.ts
    THEN Return(error_response(400, "Missing signature or timestamp"), <<>>)
    ELSE IF e.body = "badb64"
    THEN \* binascii.Error is a ValueError: 400 with str(e)
         Return(error_response(400, "str(e)"), <<Failed("b64decode")>>)
    ELSE IF e.body = "null"
    THEN \* json.loads(None) raises TypeError: the catch-all
         Return(error_response(500, "Internal server error"),
                <<Failed("json_loads")>>)
    ELSE IF e.body = "notjson"
    THEN Return(error_response(400, "Invalid JSON"), <<Failed("json_loads")>>)
    ELSE IF e.sig = "nonhex"
    THEN \* bytes.fromhex(signature) raises ValueError: 400 with str(e)
         Return(error_response(400, "str(e)"),
                <<Did("json_loads"), Failed("verify")>>)
    ELSE IF e.sig = "wrong"
    THEN Return(error_response(401, "Invalid request signature"),
                <<Did("json_loads"), Failed("verify")>>)
    ELSE Prepend(<<Did("json_loads"), Did("verify")>>, handle_verified(e.json))

\* A variant of can_afford that compares the balance with zero.
can_afford_any_price(current_tokens, price) == current_tokens > 0

\* buy_command's test `current_tokens >= price`.
can_afford(current_tokens, price) == current_tokens >= price

\* ----------------------------------------------------------------- actions

Init ==
    /\ users_table \in [Users -> {[present |-> FALSE, tokens |-> 0]}
                                 \cup {[present |-> TRUE, tokens |-> t] :
                                          t \in InitialTokens}]
    /\ pc = [r \in Requests |-> "idle"]
    /\ event = [r \in Requests |-> NoEvent]
    /\ local = [r \in Requests |-> NoLocals]
    /\ sent = [r \in Requests |-> NoPayload]
    /\ response = [r \in Requests |-> NoResponse]
    /\ calls = [r \in Requests |-> <<>>]

\* A request arrives and lambda_handler runs up to its first collaborator call.
Receive(r) ==
    /\ pc[r] = "idle"
    /\ \E e \in Events :
         LET o == lambda_handler(e) IN
         /\ event' = [event EXCEPT ![r] = e]
         /\ pc' = [pc EXCEPT ![r] = o.pc]
         /\ response' = [response EXCEPT ![r] = o.response]
         /\ calls' = [calls EXCEPT ![r] = o.calls]
         /\ local' = [local EXCEPT ![r] = o.local]
    /\ UNCHANGED <<users_table, sent>>

\* balance_command: get_user_tokens, then the reply is built.
BalanceGet(r) ==
    /\ pc[r] = "balance_get"
    /\ \E ok \in BOOLEAN :
         LET u == local[r].user
             tokens == get_user_tokens(u, ok) IN
         /\ calls' = [calls EXCEPT ![r] =
                         Append(@, Call("get_item", u, tokens, Tokens(u), Tokens(u), ok))]
         /\ local' = [local EXCEPT ![r].current_tokens = tokens,
                                   ![r].message = Content("balance", u, NoItem, tokens, 0)]
    /\ pc' = [pc EXCEPT ![r] = "reply"]
    /\ UNCHANGED <<users_table, event, sent, response>>

\* buy_command: current_tokens = get_user_tokens(user_id); if it is below
\* the price the "not enough" message is built.
BuyGet(r) ==
    /\ pc[r] = "buy_get"
    /\ \E ok \in BOOLEAN :
         LET u == local[r].user
             tokens == get_user_tokens(u, ok) IN
         /\ calls' = [calls EXCEPT ![r] =
                         Append(@, Call("get_item", u, tokens, Tokens(u), Tokens(u), ok))]
         /\ IF can_afford(tokens, local[r].price)
            THEN /\ local' = [local EXCEPT ![r].current_tokens = tokens]
                 /\ pc' = [pc EXCEPT ![r] = "buy_update"]
            ELSE /\ local' = [local EXCEPT
                                 ![r].current_tokens = tokens,
                                 ![r].message = Content("not_enough", u, local[r].item, 0, 0)]
                 /\ pc' = [pc EXCEPT ![r] = "reply"]
    /\ UNCHANGED <<users_table, event, sent, response>>

\* buy_command: update_user_tokens(user_id, -price), then the "bought"
\* message is built, whether or not the update was applied.
BuyUpdate(r) ==
    /\ pc[r] = "buy_update"
    /\ \E ok \in BOOLEAN :
         LET u == local[r].user
             amount == 0 - local[r].price
             after == update_user_tokens(u, amount, ok) IN
         /\ users_table' = after
         /\ calls' = [calls EXCEPT ![r] =
                         Append(@, Call("update_item", u, amount, Tokens(u),
                                        after[u].tokens, ok))]
         /\ local' = [local EXCEPT ![r].message =
                         Content("bought", u, local[r].item, local[r].price, 0)]
    /\ pc' = [pc EXCEPT ![r] = "send_dm"]
    /\ UNCHANGED <<event, sent, response>>

\* send_dm_with_embed, called by buy_command.  A RequestException of either
\* POST is caught and logged; a channel response without 'id' raises
\* KeyError, which buy_command's except KeyError turns into a 400.
SendDm(r) ==
    /\ pc[r] = "send_dm"
    /\ \E how \in {"channel_fails", "no_channel_id", "message_fails", "ok"} :
         CASE how = "channel_fails" ->
                /\ calls' = [calls EXCEPT ![r] = Append(@, Failed("dm_channel"))]
                /\ pc' = [pc EXCEPT ![r] = "reply"]
                /\ UNCHANGED response
           [] how = "no_channel_id" ->
                /\ calls' = [calls EXCEPT ![r] = Append(@, Did("dm_channel"))]
                /\ pc' = [pc EXCEPT ![r] = "done"]
                /\ response' = [response EXCEPT ![r] = error_response(400, "Invalid item")]
           [] how = "message_fails" ->
                /\ calls' = [calls EXCEPT ![r] =
                                @ \o <<Did("dm_channel"), Failed("dm_message")>>]
                /\ pc' = [pc EXCEPT ![r] = "reply"]
                /\ UNCHANGED response
           [] how = "ok" ->
                /\ calls' = [calls EXCEPT ![r] =
                                @ \o <<Did("dm_channel"), Did("dm_message")>>]
                /\ pc' = [pc EXCEPT ![r] = "reply"]
                /\ UNCHANGED response
    /\ UNCHANGED <<users_table, event, local, sent>>

\* download_image, called by submit_image_command.  Only an HTTP error
\* status reaches the urllib fallback: a connection error leaves `response`
\* unbound in the except block (UnboundLocalError), and the content-type
\* ValueError is not a RequestException.  Every exception that leaves
\* download_image ends in submit_image_command's except Exception.
DownloadImage(r) ==
    /\ pc[r] = "download"
    /\ \E primary \in {"ok", "connection_error", "http_error", "bad_content_type"},
          secondary \in {"ok", "url_error"} :
         CASE primary = "ok" ->
                /\ secondary = "ok"
                /\ calls' = [calls EXCEPT ![r] = Append(@, Did("requests_get"))]
                /\ pc' = [pc EXCEPT ![r] = "classify"]
                /\ UNCHANGED response
           [] primary \in {"connection_error", "bad_content_type"} ->
                /\ secondary = "ok"
                /\ calls' = [calls EXCEPT ![r] = Append(@, Failed("requests_get"))]
                /\ pc' = [pc EXCEPT ![r] = "done"]
                /\ response' = [response EXCEPT ![r] =
                                   error_response(500, "Failed to analyze the image")]
           [] primary = "http_error" /\ secondary = "ok" ->
                /\ calls' = [calls EXCEPT ![r] =
                                @ \o <<Failed("requests_get"), Did("urlopen")>>]
                /\ pc' = [pc EXCEPT ![r] = "classify"]
                /\ UNCHANGED response
           [] primary = "http_error" /\ secondary = "url_error" ->
                /\ calls' = [calls EXCEPT ![r] =
                                @ \o <<Failed("requests_get"), Failed("urlopen")>>]
                /\ pc' = [pc EXCEPT ![r] = "done"]
                /\ response' = [response EXCEPT ![r] =
                                   error_response(500, "Failed to analyze the image")]
    /\ UNCHANGED <<users_table, event, local, sent>>

\* submit_image_command: the classification call and
\* extract_tokens_from_description.  An HTTPError and any other
\* RequestException give the same response.
Classify(r) ==
    /\ pc[r] = "classify"
    /\ \/ /\ calls' = [calls EXCEPT ![r] = Append(@, Failed("classify"))]
          /\ pc' = [pc EXCEPT ![r] = "done"]
          /\ response' = [response EXCEPT ![r] =
                             error_response(500, "Failed to analyze the image")]
          /\ UNCHANGED local
       \/ \* the answer lacks choices[0].message.content: KeyError
          /\ calls' = [calls EXCEPT ![r] = Append(@, Did("classify"))]
          /\ pc' = [pc EXCEPT ![r] = "done"]
          /\ response' = [response EXCEPT ![r] =
                             error_response(500, "Failed to process the image")]
          /\ UNCHANGED local
       \/ \E description \in Descriptions :
            /\ calls' = [calls EXCEPT ![r] = Append(@, Did("classify"))]
            /\ local' = [local EXCEPT ![r].token_amount =
                            extract_tokens_from_description(description)]
            /\ pc' = [pc EXCEPT ![r] = "image_update"]
            /\ UNCHANGED response
    /\ UNCHANGED <<users_table, event, sent>>

\* submit_image_command: update_user_tokens(user_id, token_amount).
ImageUpdate(r) ==
    /\ pc[r] = "image_update"
    /\ \E ok \in BOOLEAN :
         LET u == local[r].user
             amount == local[r].token_amount
             after == update_user_tokens(u, amount, ok) IN
         /\ users_table' = after
         /\ calls' = [calls EXCEPT ![r] =
                         Append(@, Call("update_item", u, amount, Tokens(u),
                                        after[u].tokens, ok))]
    /\ pc' = [pc EXCEPT ![r] = "image_get"]
    /\ UNCHANGED <<event, local, sent, response>>

\* submit_image_command: new_balance = get_user_tokens(user_id), then the
\* reply is built.
ImageGet(r) ==
    /\ pc[r] = "image_get"
    /\ \E ok \in BOOLEAN :
         LET u == local[r].user
             new_balance == get_user_tokens(u, ok) IN
         /\ calls' = [calls EXCEPT ![r] =
                         Append(@, Call("get_item", u, new_balance, Tokens(u),
                                        Tokens(u), ok))]
         /\ local' = [local EXCEPT
                         ![r].current_tokens = new_balance,
                         ![r].message = Content("image", u, NoItem,
                                                local[r].token_amount, new_balance)]
    /\ pc' = [pc EXCEPT ![r] = "reply"]
    /\ UNCHANGED <<users_table, event, sent, response>>

\* send_interaction_response: the type-4 message is posted to the callback
\* endpoint; the handler returns the platform's answer, or a 500 when the
\* POST raises.
SendInteractionResponse(r) ==
    /\ pc[r] = "reply"
    /\ sent' = [sent EXCEPT ![r] = Payload(4, local[r].message)]
    /\ \/ \E code \in CallbackStatuses :
            /\ calls' = [calls EXCEPT ![r] = Append(@, Did("callback"))]
            /\ response' = [response EXCEPT ![r] =
                               [statusCode |-> code, body |-> Body("", 0, "response.text")]]
       \/ /\ calls' = [calls EXCEPT ![r] = Append(@, Failed("callback"))]
          /\ response' = [response EXCEPT ![r] =
                             error_response(500, "Failed to send interaction response")]
    /\ pc' = [pc EXCEPT ![r] = "done"]
    /\ UNCHANGED <<users_table, event, local>>

Next ==
    \E r \in Requests :
        \/ Receive(r)
        \/ BalanceGet(r)
        \/ BuyGet(r)
        \/ BuyUpdate(r)
        \/ SendDm(r)
        \/ DownloadImage(r)
        \/ Classify(r)
        \/ ImageUpdate(r)
        \/ ImageGet(r)
        \/ SendInteractionResponse(r)

Spec == Init /\ [][Next]_vars

\* ------------------------------------------------------------------ claims

Done(r) == pc[r] = "done"

Received(r) == pc[r] # "idle"

\* The request carried both headers and its signature verified.
Verified(r) == Received(r) /\ event[r].sig = "valid" /\ event[r].ts

\* A verified command invocation (not a liveness check) of the given name.
Invokes(r, name) ==
    Verified(r) /\ event[r].json.type # 1 /\ event[r].json.name = name

Positions(r, ops) == {i \in 1..Len(calls[r]) : calls[r][i].op \in ops}

\* Calls of a collaborator or of a command handler.
WorkOps ==
    {"balance_command", "shop_command", "buy_command", "submit_image_command",
     "get_item", "update_item", "dm_channel", "dm_message", "callback",
     "requests_get", "urlopen", "classify"}

NotificationOps == {"dm_channel", "dm_message"}

\* The request's table write was applied and took tokens away.
Decremented(r) ==
    \E i \in Positions(r, {"update_item"}) : calls[r][i].ok /\ calls[r][i].amount < 0

\* C1: a user's stored balance never becomes negative as a result of a
\* purchase, whatever way buy requests for the same user interleave.
C1_BalanceNeverNegative == \A u \in Users : users_table[u].tokens >= 0

\* C2: a request that carries both headers and whose signature does not
\* verify (wrong, or verification raises) is answered 401 with no further
\* work, whatever its body is.
C2_UnverifiableGets401 ==
    \A r \in Requests :
        (Received(r) /\ event[r].ts /\ event[r].sig \in {"nonhex", "wrong"})
        => /\ Done(r)
           /\ response[r].statusCode = 401
           /\ Ops(r) \cap WorkOps = {}

\* C3: a request whose signature is invalid or whose signature or timestamp
\* header is missing is answered 400 or 401 and causes no balance read or
\* write, no command handler and no outbound call; with a header missing the
\* answer is 400 and verification is not attempted.
C3_UnsignedGets400Or401 ==
    \A r \in Requests :
        (Received(r) /\ ~Verified(r))
        => /\ Done(r)
           /\ response[r].statusCode \in {400, 401}
           /\ Ops(r) \cap WorkOps = {}
           /\ sent[r] = NoPayload
           /\ (event[r].sig = "absent" \/ ~event[r].ts)
                => (response[r].statusCode = 400 /\ "verify" \notin Ops(r))

\* C4: a verified request whose body has type = 1 is answered 200 with the
\* body {"type": 1}, whatever else the body carries, and runs no command
\* handler, table access or outbound call.
C4_PingAcknowledged ==
    \A r \in Requests :
        (Verified(r) /\ event[r].json.type = 1)
        => /\ Done(r)
           /\ response[r] = [statusCode |-> 200, body |-> Body("", 1, "")]
           /\ Ops(r) \cap WorkOps = {}
           /\ sent[r] = NoPayload

C4_Witness ==
    \E r \in Requests :
        /\ Verified(r) /\ Done(r)
        /\ event[r].json.type = 1 /\ event[r].json.name = "buy"

\* The buy invocation has its user and its item, and did not end in a purchase:
\* the item is no key of the catalog (how = "not_exist"), or it is and the
\* balance the handler read is below its price (how = "not_enough").
NoPurchase(r, how) ==
    /\ Invokes(r, "buy")
    /\ event[r].json.user # NoUser
    /\ event[r].json.hasOptions /\ event[r].json.options # <<>>
    /\ LET item == event[r].json.options[1] IN
       IF item \notin ShopItems
       THEN how = "not_exist"
       ELSE /\ how = "not_enough"
            /\ \E i \in Positions(r, {"get_item"}) : calls[r][i].amount < Price(item)

\* C5: a buy invocation that does not end in a purchase (unknown item, or
\* balance read below the price) makes no balance write and no notification
\* attempt, and its reply is the type-4 "does not exist" resp. "not enough
\* tokens" message, not an error response.
C5_NoPurchaseNoWrite ==
    \A r \in Requests : \A how \in {"not_exist", "not_enough"} :
        NoPurchase(r, how)
        => /\ Ops(r) \cap ({"update_item"} \cup NotificationOps) = {}
           /\ pc[r] \in {"reply", "done"}
           /\ local[r].message =
                 Content(how, event[r].json.user, event[r].json.options[1], 0, 0)
           /\ Done(r)
                => /\ sent[r] = Payload(4, local[r].message)
                   /\ Did("callback") \in {calls[r][i] : i \in 1..Len(calls[r])}
                        => /\ response[r].statusCode \in CallbackStatuses
                           /\ response[r].body.error = ""
                   /\ response[r].statusCode # 400

C5_Witness ==
    \E r1, r2 \in Requests :
        /\ NoPurchase(r1, "not_exist") /\ Done(r1)
        /\ NoPurchase(r2, "not_enough") /\ Done(r2)
        /\ \E i \in Positions(r2, {"get_item"}) : calls[r2][i].ok /\ calls[r2][i].amount > 0

\* The notification of the request failed: the channel call failed, its
\* answer held no channel id (no message call followed it), or the message
\* call failed.
NotificationFailed(r) ==
    \/ \E i \in Positions(r, NotificationOps) : ~calls[r][i].ok
    \/ /\ "dm_channel" \in Ops(r) /\ "dm_message" \notin Ops(r)
       /\ pc[r] # "send_dm"

\* C6: whatever way the notification of a purchase fails, the decrement is
\* kept and buy_command still sends the "you bought" reply instead of
\* returning an error response.
C6_NotificationFailureIsolated ==
    \A r \in Requests :
        (Done(r) /\ Invokes(r, "buy") /\ Decremented(r) /\ NotificationFailed(r))
        => /\ sent[r] = Payload(4, Content("bought", local[r].user, local[r].item,
                                             local[r].price, 0))
           /\ "callback" \in Ops(r)
           /\ Cardinality(Positions(r, {"update_item"})) = 1

\* The buy invocation read a balance that covers the price of its item.
ReadEnough(r) ==
    /\ Invokes(r, "buy")
    /\ \E i \in Positions(r, {"get_item"}) : calls[r][i].amount >= local[r].price

\* C7: a buy of a catalog item by a user whose balance read covers the price
\* leaves the stored balance at the balance before minus the price, attempts
\* a notification and replies "you bought"; the reply is never sent for a
\* purchase whose decrement was not applied.
C7_PurchaseDecrementsByPrice ==
    \A r \in Requests :
        (ReadEnough(r) /\ pc[r] \in {"send_dm", "reply", "done"})
        => /\ \E i \in Positions(r, {"update_item"}) :
                 calls[r][i].after = calls[r][i].before - local[r].price
           /\ pc[r] \in {"reply", "done"} => "dm_channel" \in Ops(r)
           /\ sent[r].content.kind = "bought" => Decremented(r)

\* The command name has no handler.
UnknownName(r) ==
    /\ Verified(r) /\ event[r].json.type # 1
    /\ event[r].json.name \notin {"balance", "shop", "buy", "submit_image"}

\* C8: a verified command whose name is none of balance, shop, buy,
\* submit_image (earn, spend and a missing name included) is answered 400
\* with an error message, and no table, classification, notification or
\* callback call is made.
C8_UnknownCommand400 ==
    \A r \in Requests :
        UnknownName(r)
        => /\ Done(r)
           /\ response[r].statusCode = 400
           /\ response[r].body.error # ""
           /\ Ops(r) \cap WorkOps = {}
           /\ sent[r] = NoPayload

C8_Witness ==
    \E r1, r2 \in Requests :
        /\ UnknownName(r1) /\ event[r1].json.name = "earn"
        /\ UnknownName(r2) /\ event[r2].json.name = NoName

\* The invocation lacks a field its handler requires.
MissingField(r) ==
    LET j == event[r].json IN
    \/ /\ \E n \in {"balance", "buy", "submit_image"} : Invokes(r, n)
       /\ j.user = NoUser
    \/ /\ \E n \in {"buy", "submit_image"} : Invokes(r, n)
       /\ (~j.hasOptions \/ j.options = <<>>)

\* C9: a command invocation that lacks a field its handler requires (the
\* user id; the item option of buy; the url option of submit_image) is
\* answered with a 400 error response and writes no balance.
C9_MissingFieldGets400 ==
    \A r \in Requests :
        MissingField(r)
        => /\ Done(r)
           /\ response[r].statusCode = 400
           /\ response[r].body.error # ""
           /\ "update_item" \notin Ops(r)

\* Every call of `later` in the request's calls follows a call of `earlier`.
Precedes(r, earlier, later) ==
    \A i \in Positions(r, later) : \E k \in Positions(r, earlier) : k < i

\* C10 as stated: within one buy or submit_image request the balance read
\* precedes the balance write, and the write precedes any notification.
C10_ReadThenWriteThenNotify ==
    \A r \in Requests :
        (Invokes(r, "buy") \/ Invokes(r, "submit_image"))
        => /\ Precedes(r, {"get_item"}, {"update_item"})
           /\ Precedes(r, {"update_item"}, NotificationOps)

\* C10 as amended: within one buy request the balance read precedes the
\* balance write and the write precedes the notification attempt; within one
\* submit_image request the balance write precedes the balance read and no
\* notification is attempted.
C10_OrderPerHandler ==
    \A r \in Requests :
        /\ Invokes(r, "buy")
             => /\ Precedes(r, {"get_item"}, {"update_item"})
                /\ Precedes(r, {"update_item"}, NotificationOps)
        /\ Invokes(r, "submit_image")
             => /\ Precedes(r, {"update_item"}, {"get_item"})
                /\ Ops(r) \cap NotificationOps = {}

C10_Witness ==
    \E r1, r2 \in Requests :
        /\ Invokes(r1, "buy") /\ Done(r1) /\ "dm_message" \in Ops(r1)
        /\ Invokes(r2, "submit_image") /\ Done(r2)
        /\ {"update_item", "get_item"} \subseteq Ops(r2)

\* The primary fetch (requests.get, raise_for_status, the content-type test)
\* of the request's download_image failed.
PrimaryFailed(r) ==
    \E i \in Positions(r, {"requests_get"}) : ~calls[r][i].ok

\* download_image raised: the handler ended after the download without
\* reaching the classification call.
DownloadFailed(r) ==
    /\ Done(r) /\ "requests_get" \in Ops(r) /\ "classify" \notin Ops(r)

\* C11: whenever the primary fetch fails, for any reason (no response, HTTP
\* error status, rejected content type), the secondary fetch (urllib) is
\* attempted, and download_image fails only if both fetches fail.
C11_FallbackOnAnyFailure ==
    \A r \in Requests :
        /\ PrimaryFailed(r) => "urlopen" \in Ops(r)
        /\ DownloadFailed(r)
             => /\ PrimaryFailed(r)
                /\ \E i \in Positions(r, {"urlopen"}) : ~calls[r][i].ok

====
